---- MODULE Spec2Model ----
(***************************************************************************)
(* Orchestration core of UroGuardian v2 (src/v2/rpi/src): message          *)
(* ingestion (broker.py), sample lifecycle (sample_handler.py), stage      *)
(* controller (controller.py) and the presence / tag pollers               *)
(* (presence_sensor.py, nfc_reader.py).                                    *)
(*                                                                         *)
(* Threads: "I" is the pub/sub delivery loop, which runs                   *)
(* Broker._on_message and everything it calls synchronously (the sample    *)
(* handler, Controller.set_stage, the bounded tag scan and its callback);  *)
(* 1..MaxWorkers are PresenceSensor._poll_loop worker threads.             *)
(***************************************************************************)
EXTENDS Integers, Sequences, FiniteSets, TLC

\* ---------------------------------------------------------------- bounds
MaxMsgs == 4        \* messages accepted for delivery in one run
MaxFaults == 1      \* collaborator calls that raise in one run
MaxWorkers == 2     \* presence worker threads that may exist at once
MaxTimeout == 2     \* longest timeout (s) given to a bounded tag scan
MaxTicks == 3       \* ticks counted while the presence poller runs alone
MaxRetries == 3     \* largest num_retries given to start_broker

\* ------------------------------------------------------------- constants
NULL == 0                           \* Python None for ids and end_time
NoReading == -1                     \* a distance the report does not carry
nfc_timeout == 20                   \* conf.nfc.nfc_timeout, default
in_use_threshold_cm == 60
near_threshold_cm == 120

MeasurementTopic == "spectrum_datapoints"

\* mqtt_conf["topics"]: topic -> required field names (configuration)
topics ==
  [t \in {"spectrum_datapoints", "telemetry", "logs"} |->
     CASE t = "spectrum_datapoints" -> {"mac_address", "flag"}
       [] t = "telemetry"           -> {"mac_address", "value"}
       [] OTHER                     -> {}]

Flags == {1, 0, -1}
Tags == {"T1"}
\* two of the five classes random.choice draws the mock result from
HydrationResults == {"Hidratado", "Desidratado"}
Stages == {"standby", "idle", "welcome", "collecting", "processing",
           "results", "history", "goodbye"}
Workers == 1..MaxWorkers

\* Device directory: ResolveDevice(address) -> deviceId | not-found
get_device_id(mac) ==
  CASE mac = "AA" -> 1
    [] mac = "BB" -> 2
    [] OTHER      -> NULL

\* User directory: ResolveOrCreateUser(tagUid) -> userId
get_user_id(uid) == IF uid = "T1" THEN 1 ELSE 2

\* ------------------------------------------------------------ the inputs
\* An inbound message: the topic and the decoded payload text.  kind is
\* what json.loads makes of the text: "garbage" does not parse, "scalar" is
\* a JSON number / bool / null, "list" is a JSON list or string (a container
\* that supports `in` but has no .get), "map" is a JSON object.  keys are
\* the keys of the map (or the elements of the list).
Msg(t, k, ks, mac, flag, ts) ==
  [topic |-> t, kind |-> k, keys |-> ks, mac |-> mac, flag |-> flag, ts |-> ts]

MeasurementRecords ==
  { Msg(MeasurementTopic, "map", {"mac_address", "flag"}, mac, fl, ts) :
      mac \in {"AA", "BB"}, fl \in Flags, ts \in {1} }

Messages ==
  MeasurementRecords
  \cup { Msg(MeasurementTopic, "map", {"mac_address", "flag"}, "ZZ", 1, 1) }
  \cup { Msg(MeasurementTopic, "map", ks, "AA", 1, 1) :
           ks \in {{"mac_address"}, {"flag"}} }
  \cup { Msg(MeasurementTopic, k, {}, "AA", 1, 1) :
           k \in {"garbage", "scalar", "list"} }
  \cup { Msg(MeasurementTopic, "list", {"mac_address", "flag"}, "AA", 1, 1) }
  \cup { Msg("telemetry", "map", {"mac_address", "value"}, mac, 0, 1) :
           mac \in {"AA", "ZZ"} }
  \cup { Msg("telemetry", "map", ks, "AA", 0, 1) :
           ks \in {{"value"}, {"mac_address"}} }
  \cup { Msg("logs", "map", {"mac_address"}, "AA", 0, 1) }
  \cup { Msg("unknown", "map", {"mac_address"}, "AA", 0, 1) }

\* The records of one device, as delivered while the pollers run.
DeviceRecords ==
  { Msg(MeasurementTopic, "map", {"mac_address", "flag"}, "AA", fl, 1) :
      fl \in Flags }

\* The open and close markers of one device.
MarkerRecords == { m \in DeviceRecords : m.flag # 0 }

\* payload["timestamp"], a number the device supplies
Timestamps == {1, 2}

\* The records of one device under every timestamp it may send.
TimedRecords ==
  { Msg(MeasurementTopic, "map", {"mac_address", "flag"}, "AA", fl, ts) :
      fl \in Flags, ts \in Timestamps }

TelemetryRecords ==
  { Msg("telemetry", "map", {"mac_address", "value"}, "AA", 0, 1) }

\* A call of an external collaborator that raises while one message is
\* handled: the device lookup, a persistence call, the user directory, or
\* the observer notification of one set_stage call.
NotifyFault(stage) ==
  CASE stage = "collecting" -> "notify_collecting"
    [] stage = "processing" -> "notify_processing"
    [] stage = "results"    -> "notify_results"
    [] stage = "history"    -> "notify_history"
    [] OTHER                -> "notify_welcome"

FaultsFor(m) ==
  {"none", "lookup"}
  \cup (IF m.topic # MeasurementTopic THEN {"insert"}
        ELSE IF m.flag = 1 THEN {"create", "notify_collecting", "insert"}
        ELSE IF m.flag = 0 THEN {"insert"}
        ELSE {"insert", "close", "notify_processing", "update",
              "notify_results", "user", "notify_history"})

\* ----------------------------------------------------------------- state
VARIABLES
  pcI,                \* position of the delivery-loop thread
  iStage,             \* stage of the set_stage call it is executing
  cur,                \* the record it is handling
  msgCount,           \* messages accepted for delivery so far
  faultCount,         \* collaborator calls that raised so far
  last,               \* what became of the last delivered message
  hist,               \* records handed to SampleHandler.handle_datapoint
  stageLog,           \* stage_update broadcasts made by the delivery thread
  samples,            \* table urine_samples, sample_id = index
  datapoints,         \* table spectrum_datapoints
  records,            \* rows inserted into the other tables
  current_sample_id,  \* SampleHandler.current_sample_id
  state,              \* Controller.state
  state_lock,         \* Controller.state_lock: Free or the holding thread
  polling,            \* PresenceSensor.polling
  thread,             \* PresenceSensor._thread (NULL = None)
  wpc,                \* position of each presence worker thread
  running,            \* NFCReader.running
  nfc,                \* the NFCReader driven directly by a client: the
                      \* bounded scan in progress and the always-on worker
  cls,                \* _interpret_report applied to a report: its
                      \* arguments and its result
  tick,               \* the PresenceSensor driven by a client: the ticks
                      \* of its loop and the calls of the client's callback
  sup                 \* Broker.start_broker: the call in progress

ingestVars == <<pcI, iStage, cur, msgCount, faultCount, last, hist, stageLog>>
dbVars     == <<samples, datapoints, records, current_sample_id>>
stageVars  == <<state, state_lock>>
pollVars   == <<polling, thread, wpc>>
probeVars  == <<cls, tick, sup>>
vars == <<ingestVars, dbVars, stageVars, pollVars, running, nfc, probeVars>>

Free == <<"free", 0>>        \* the lock is not held
IThread == <<"I", 0>>        \* the delivery-loop thread
WThread(w) == <<"W", w>>     \* a presence worker thread

\* NFCReader after construction, no scan made yet.  pc is the position of
\* the client thread in read_tag_continuous, timeout / end_time / now its
\* argument, deadline and last clock reading (s since the call), calls the
\* callback invocations of the scan, result its return value, cb what the
\* callback given does, thread is self._thread, tpc the position of the
\* always-on worker; tag says whether a tag is in the reader's field.
NoScan == [pc |-> "idle", timeout |-> 0, end_time |-> NULL, now |-> 0,
           calls |-> 0, result |-> "None", cb |-> "plain",
           thread |-> "None", tpc |-> "none", tag |-> FALSE]

\* No report classified yet.
NoReport == [rep |-> <<NoReading, NoReading, NoReading>>,
             in_use |-> in_use_threshold_cm, near |-> near_threshold_cm,
             event |-> "none"]

\* No tick made yet: ticks of the loop, calls of the callback, the outcome
\* of the latest read, the report it had to give and the event given to the
\* callback.
NoTick == [ticks |-> 0, calls |-> 0, read |-> "none",
           rep |-> <<NoReading, NoReading, NoReading>>, event |-> "none"]

\* start_broker not called yet.
NoCall == [pc |-> "none", system |-> "LINUX", num_retries |-> 0, attempt |-> 0,
           alive |-> FALSE, was_alive |-> FALSE, spawned |-> 0, restarts |-> 0,
           started |-> FALSE]

\* No record in hand.  Of a record: its device, marker, timestamp, the
\* collaborator call that raises for it, the user its tag resolved to, the
\* Sample its close marker closed, and the set_stage call site reached.
NoCur == [dev |-> NULL, flag |-> 0, ts |-> 0, fault |-> "none", user |-> NULL,
          closed |-> NULL, site |-> "none"]

Init ==
  /\ pcI = "idle"
  /\ iStage = "standby"
  /\ cur = NoCur
  /\ msgCount = 0
  /\ faultCount = 0
  /\ last = [valid |-> FALSE, bad |-> FALSE, want |-> "none",
             outcome |-> "none", dest |-> "none"]
  /\ hist = <<>>
  /\ stageLog = <<>>
  /\ samples = <<>>
  /\ datapoints = <<>>
  /\ records = <<>>
  /\ current_sample_id = NULL
  /\ state = [stage |-> "standby", user_id |-> NULL]
  /\ state_lock = Free
  /\ polling = FALSE
  /\ thread = NULL
  /\ wpc = [w \in Workers |-> "unused"]
  /\ running = FALSE
  /\ nfc = NoScan
  /\ cls = NoReport
  /\ tick = NoTick
  /\ sup = NoCall


\* ------------------------------------------------- persistence gateway
\* Database.create_sample(device_id, start_timestamp): a new Sample, open.
create_sample(dev, ts) ==
  Append(samples, [device |-> dev, start_time |-> ts, end_time |-> NULL,
                   status |-> "open", result |-> "none", user |-> NULL])

\* Database.close_sample(sample_id, end_timestamp): an update by id, which
\* matches no row when the id is None.
close_sample(sid, ts) ==
  IF sid \in DOMAIN samples
    THEN [samples EXCEPT ![sid].status = "closed", ![sid].end_time = ts]
    ELSE samples

\* Database.update_data("urine_samples", data, "sample_id = <sid>")
update_sample(tbl, sid, field, val) ==
  IF sid \in DOMAIN tbl
    THEN IF field = "user" THEN [tbl EXCEPT ![sid].user = val]
                           ELSE [tbl EXCEPT ![sid].result = val]
    ELSE tbl

\* Database.insert_dict_into_table("spectrum_datapoints", payload)
insert_datapoint(dev, flag, sid) ==
  Append(datapoints, [device |-> dev, flag |-> flag, sample_id |-> sid])

\* ------------------------------------------------------ sample lifecycle
\* a handler that opens a Sample for every record that is not a close marker
OpensSample_EveryRecord(flag) == flag >= 0
OpensSample(flag) == flag = 1         \* if flag == 1
ClosesSample(flag) == flag = -1       \* if flag == -1
StageOnOpen == "collecting"
\* a handler that announces collecting again when it closes a Sample
StageOnClose_Collecting == "collecting"
StageOnClose == "processing"
\* a post-processing that announces a stage under a misspelt name
StageAfterProcess_Misspelt == "result"
StageAfterProcess == "results"
StageOnTag == "history"

\* payload["sample_id"] = self.current_sample_id, read after the open
\* branch has run: csid is the handler's current sample at that point.
StampedSampleId(csid) == csid

\* The handler returns (o = "stored") or raises into the try/except of
\* save_into_database (o = "error"); l is the ledger entry of the message.
Done(l, o) ==
  /\ pcI' = "idle"
  /\ cur' = NoCur
  /\ last' = [l EXCEPT !.outcome = o]

\* The handler enters Controller.set_stage(stage) at a call site.
CallSetStage(l, r, site, stage) ==
  /\ pcI' = "lock"
  /\ iStage' = stage
  /\ cur' = [r EXCEPT !.site = site]
  /\ last' = [l EXCEPT !.outcome = "handling"]

\* SampleHandler.handle_datapoint up to its first set_stage call (or to its
\* end when the record requests none).  r is the record entering the handler.
handle_datapoint(l, r) ==
  IF OpensSample(r.flag) THEN
    IF r.fault = "create"
      THEN /\ Done(l, "error")
           /\ UNCHANGED <<iStage, dbVars>>
      ELSE /\ samples' = create_sample(r.dev, r.ts)
           /\ current_sample_id' = Len(samples) + 1
           /\ CallSetStage(l, r, "open", StageOnOpen)
           /\ UNCHANGED <<datapoints, records>>
  ELSE IF r.fault = "insert"
    THEN /\ Done(l, "error")
         /\ UNCHANGED <<iStage, dbVars>>
  ELSE IF ~ClosesSample(r.flag)
    THEN /\ datapoints' =
              insert_datapoint(r.dev, r.flag, StampedSampleId(current_sample_id))
         /\ Done(l, "stored")
         /\ UNCHANGED <<iStage, samples, records, current_sample_id>>
  ELSE IF r.fault = "close"
    THEN /\ datapoints' =
              insert_datapoint(r.dev, r.flag, StampedSampleId(current_sample_id))
         /\ Done(l, "error")
         /\ UNCHANGED <<iStage, samples, records, current_sample_id>>
  ELSE /\ datapoints' =
            insert_datapoint(r.dev, r.flag, StampedSampleId(current_sample_id))
       /\ samples' = close_sample(current_sample_id, r.ts)
       /\ CallSetStage(l, [r EXCEPT !.closed = current_sample_id], "close",
                       StageOnClose)
       /\ UNCHANGED <<records, current_sample_id>>

\* ---------------------------------------------------- message ingestion
\* self.topics.get(topic, [])
TopicFields(t) == IF t \in DOMAIN topics THEN topics[t] ELSE {}

\* a broker that skips the required-field check
Missing_Unchecked(fields, m) == {}
\* [field for field in topic_fields if field not in data]
Missing(fields, m) == fields \ m.keys

\* data.get("mac_address")
MacOf(m) == IF "mac_address" \in m.keys THEN m.mac ELSE "none"

\* The message satisfies the acceptance conditions of section 4.3: a
\* configured topic, a field map with every required field, a known device.
\* The destination section 4.3 gives an accepted message of the topic.
Destination(t) == IF t = MeasurementTopic THEN "handler" ELSE "table"

Acceptable(m) ==
  /\ m.topic \in DOMAIN topics
  /\ m.kind = "map"
  /\ topics[m.topic] \subseteq m.keys
  /\ get_device_id(MacOf(m)) # NULL

\* The payload is no field map, or lacks a field its topic requires, or its
\* hardware address resolves to no device.
Unacceptable(m) ==
  \/ m.kind # "map"
  \/ TopicFields(m.topic) \ m.keys # {}
  \/ get_device_id(MacOf(m)) = NULL

\* An exception leaves save_into_database and _on_message: it is raised in
\* the client's delivery loop, whose thread ends.
Escapes ==
  /\ pcI' = "dead"
  /\ cur' = NoCur
  /\ UNCHANGED <<iStage, hist, dbVars>>

save_into_database(m, f) ==
  LET fields == TopicFields(m.topic)
      dev    == get_device_id(MacOf(m))
      r      == [dev |-> dev, flag |-> m.flag, ts |-> m.ts, fault |-> f,
                 user |-> NULL, closed |-> NULL, site |-> "none"]
      seen(o, d) == [valid |-> Acceptable(m) /\ f # "lookup",
                     bad |-> Unacceptable(m),
                     want |-> IF Acceptable(m) THEN Destination(m.topic)
                                               ELSE "none",
                     outcome |-> o, dest |-> d]
      drop(o) == /\ pcI' = "idle"
                 /\ cur' = NoCur
                 /\ last' = seen(o, "none")
                 /\ UNCHANGED <<iStage, hist, dbVars>>
      raise   == /\ Escapes
                 /\ last' = seen("escaped", "none")
  IN
  IF fields = {} THEN drop("dropped")
  ELSE IF m.kind = "garbage" THEN drop("dropped")
  ELSE IF m.kind = "scalar" THEN raise            \* `field not in 5`
  ELSE IF Missing(fields, m) # {} THEN drop("dropped")
  ELSE IF m.kind = "list" THEN raise              \* data.get on a list
  ELSE IF f = "lookup" THEN raise                 \* get_device_id raises
  ELSE IF dev = NULL THEN drop("dropped")
  ELSE IF m.topic = MeasurementTopic THEN
    /\ hist' = Append(hist, [dev |-> dev, flag |-> m.flag, ok |-> f = "none",
                             fault |-> f])
    /\ IF "flag" \in m.keys
         THEN handle_datapoint(seen("handling", "handler"), r)
         ELSE /\ Done(seen("handling", "handler"), "error")  \* KeyError
              /\ UNCHANGED <<iStage, dbVars>>
  ELSE
    /\ IF f = "insert"
         THEN records' = records
         ELSE records' = Append(records, [table |-> m.topic, device |-> dev])
    /\ pcI' = "idle"
    /\ cur' = NoCur
    /\ last' = seen(IF f = "insert" THEN "error" ELSE "stored", "table")
    /\ UNCHANGED <<iStage, hist, samples, datapoints, current_sample_id>>


\* Broker._on_message: one call per inbound message.  A message counts as
\* accepted when it reaches a destination.
Receive(m, f) ==
  /\ pcI = "idle"
  /\ msgCount < MaxMsgs
  /\ f = "none" \/ faultCount < MaxFaults
  /\ save_into_database(m, f)
  /\ msgCount' = IF last'.dest = "none" THEN msgCount ELSE msgCount + 1
  /\ faultCount' = IF f = "none" THEN faultCount ELSE faultCount + 1
  /\ UNCHANGED <<stageLog, stageVars, pollVars, running, nfc, probeVars>>

\* ------------------------------------------------------- presence poller
FreeSlots == {w \in Workers : wpc[w] \in {"unused", "dead"}}
NewWorker == CHOOSE w \in FreeSlots : \A v \in FreeSlots : w <= v

\* PresenceSensor.start_polling: ignored while the flag is set, else sets
\* the flag and starts a new worker thread.
start_polling ==
  IF polling
    THEN UNCHANGED pollVars
    ELSE /\ FreeSlots # {}
         /\ polling' = TRUE
         /\ thread' = NewWorker
         /\ wpc' = [wpc EXCEPT ![NewWorker] = "loop"]

\* A worker is at `while self.polling`: before its first tick or after the
\* sleep of a tick ("loop"), or after the sleep of the tick whose callback
\* called stop_polling on this very thread ("stopped").
AtLoopTest(w) == wpc[w] \in {"loop", "stopped"}

\* PresenceSensor.stop_polling called by a thread (caller is the worker's
\* number, NULL for the delivery thread): clears the flag, then joins the
\* latest worker for at most 2 s if it is alive and is not the caller.
\* joined says how the join ends: the worker, waiting at its loop test, sees
\* the cleared flag and ends within the 2 s (TRUE), or the join times out
\* with the worker still alive (FALSE; a tick takes a 1.2 s read, the
\* callback and a 1 s sleep).
stop_polling(caller, joined) ==
  /\ polling' = FALSE
  /\ thread' = thread
  /\ IF thread # NULL /\ wpc[thread] # "dead" /\ caller # thread /\ joined
       THEN /\ AtLoopTest(thread)
            /\ wpc' = [wpc EXCEPT ![thread] = "dead"]
       ELSE wpc' = wpc

\* set_stage after the lock: stage_name in ["results", "history"]
RunsPresence(stage) == stage \in {"results", "history"}

\* if stage.get("stage") == "results": the bounded tag scan
StartsTagScan(stage) == stage = "results"

PollerControl(stage, joined) ==
  IF RunsPresence(stage) THEN start_polling ELSE stop_polling(NULL, joined)

\* PresenceSensor._interpret_report
Available(rep) == {rep[i] : i \in {j \in 1..3 : rep[j] # NoReading /\ rep[j] # 0}}
Min(S) == CHOOSE x \in S : \A y \in S : x <= y
\* the body of _interpret_report for thresholds in_use and near
interpret_report_with(rep, in_use, near) ==
  IF Available(rep) = {} THEN "NO_PRESENCE"
  ELSE IF Min(Available(rep)) <= in_use THEN "URINAL_IN_USE"
  ELSE IF Min(Available(rep)) <= near THEN "NEARBY_DETECTED"
  ELSE "NO_PRESENCE"

interpret_report(rep) ==
  interpret_report_with(rep, in_use_threshold_cm, near_threshold_cm)

\* The classifier applied to a report under a configured threshold pair.
Distances == {NoReading, 0, 30, 80, 150, 200}
AllReports == {<<a, b, c>> : a \in Distances, b \in Distances, c \in Distances}
Thresholds == {<<60, 120>>, <<30, 150>>, <<80, 200>>}

Classify(rep, th) ==
  /\ cls' = [rep |-> rep, in_use |-> th[1], near |-> th[2],
             event |-> interpret_report_with(rep, th[1], th[2])]
  /\ UNCHANGED <<ingestVars, dbVars, stageVars, pollVars, running, nfc, tick, sup>>

Reports == { <<NoReading, NoReading, NoReading>>, <<200, 150, 80>>,
             <<30, NoReading, 200>>, <<200, NoReading, NoReading>>,
             <<0, 200, 200>> }

\* a get_event that classifies the report it has whatever the read did
get_event_Unguarded(rep, ok) == interpret_report(rep)
\* PresenceSensor.get_event: the classification, NO_PRESENCE when the read
\* raises or exceeds its deadline.
get_event(rep, ok) == IF ok THEN interpret_report(rep) ELSE "NO_PRESENCE"

\* ------------------------------------------------------ stage controller
\* self.state['stage'] = stage; if extra: self.state.update(extra)
Mutate(stage, user) ==
  [stage |-> stage, user_id |-> IF user # NULL THEN user ELSE state.user_id]

\* a set_stage that keeps the lock while it controls the pollers
LockAfterWith_Kept(holder) == holder
\* the exit of `with self.state_lock:`, on return and on exception alike
LockAfterWith(holder) == Free

\* with self.state_lock: (entry) and the mutation of the state
ILock ==
  /\ pcI = "lock"
  /\ state_lock = Free
  /\ state_lock' = IThread
  /\ state' = Mutate(iStage, cur.user)
  /\ pcI' = "notify"
  /\ UNCHANGED <<iStage, cur, msgCount, faultCount, last, hist, stageLog, dbVars,
                 pollVars, running, nfc, probeVars>>

\* A raise inside the handler is caught by save_into_database: the record
\* is given up and the loop waits for the next message.
Caught ==
  /\ pcI' = "idle"
  /\ cur' = NoCur
  /\ last' = [last EXCEPT !.outcome = "error"]

Returned ==
  /\ pcI' = "idle"
  /\ cur' = NoCur
  /\ last' = [last EXCEPT !.outcome = "stored"]

\* WebPage.update_stage(payload, extra_data): the payload emitted as
\* stage_update is the stage argument updated with this call's extra.
update_stage(stage, extra) == [stage |-> stage, user_id |-> extra]

\* a set_stage that catches the observer's exception and carries on with
\* the poller control
NotifyRaises_Swallowed ==
  /\ pcI' = "pollers"
  /\ UNCHANGED <<cur, last, stageLog>>
\* update_stage raises: the with block releases the lock and the exception
\* leaves set_stage, its callers up to the try/except of save_into_database.
NotifyRaises ==
  /\ Caught
  /\ UNCHANGED stageLog

\* self.webpage.update_stage(stage, extra) and the exit of the with block
INotify ==
  /\ pcI = "notify"
  /\ state_lock' = LockAfterWith(IThread)
  /\ IF cur.fault = NotifyFault(iStage)
       THEN NotifyRaises
       ELSE /\ stageLog' = Append(stageLog,
                 [stage |-> update_stage(iStage, cur.user).stage,
                  user_id |-> update_stage(iStage, cur.user).user_id,
                  rec |-> Len(hist)])
            /\ pcI' = "pollers"
            /\ UNCHANGED <<cur, last>>
  /\ UNCHANGED <<iStage, msgCount, faultCount, hist, dbVars, state, pollVars,
                 running, nfc, probeVars>>

\* The rest of set_stage (poller control) and what the caller does next,
\* up to the next set_stage call, the tag scan or the end of the handler.
IPollers(joined) ==
  /\ pcI = "pollers"
  /\ PollerControl(iStage, joined)
  /\ CASE cur.site = "open" ->
            \* handle_datapoint: stamp and persist the opening record
            /\ IF cur.fault = "insert"
                 THEN Caught /\ UNCHANGED datapoints
                 ELSE /\ datapoints' = insert_datapoint(cur.dev, cur.flag,
                                           StampedSampleId(current_sample_id))
                      /\ Returned
            /\ UNCHANGED <<iStage, samples, current_sample_id>>
       [] cur.site = "close" ->
            \* process_sample(self.current_sample_id), up to set_stage
            IF cur.fault = "update"
              THEN Caught /\ UNCHANGED <<iStage, samples, datapoints,
                                         current_sample_id>>
              ELSE /\ \E res \in HydrationResults :
                        samples' = update_sample(samples, current_sample_id,
                                                 "result", res)
                   /\ iStage' = StageAfterProcess
                   /\ cur' = [cur EXCEPT !.site = "process"]
                   /\ pcI' = "lock"
                   /\ UNCHANGED <<last, datapoints, current_sample_id>>
       [] cur.site = "process" /\ StartsTagScan(iStage) ->
            \* read_tag_continuous starts
            /\ pcI' = "scan"
            /\ UNCHANGED <<iStage, cur, last, samples, datapoints,
                           current_sample_id>>
       [] OTHER ->
            \* set_stage returns to process_sample (directly, or through
            \* the tag callback and the scan), process_sample returns;
            \* self.current_sample_id = None
            /\ current_sample_id' = NULL
            /\ Returned
            /\ UNCHANGED <<iStage, samples, datapoints>>
  /\ UNCHANGED <<msgCount, faultCount, hist, stageLog, records, stageVars,
                 running, nfc, probeVars>>

\* ------------------------------------------------------------ tag poller
\* a handler that uses its sample_id argument only
AssociatedSampleId_ArgumentOnly(sample_id, csid) == sample_id
\* sample_id if sample_id is not None else self.current_sample_id
AssociatedSampleId(sample_id, csid) ==
  IF sample_id # NULL THEN sample_id ELSE csid

\* SampleHandler.associate_sample_to_user(user_id), called by the tag
\* callback without a sample_id.
associate_sample_to_user(user) ==
  update_sample(samples, AssociatedSampleId(NULL, current_sample_id),
                "user", user)

\* NFCReader.read_tag_continuous finds a tag and calls
\* Controller._on_nfc_detected, up to its set_stage call.
IScanFound(uid) ==
  /\ pcI = "scan"
  /\ running' = FALSE
  /\ UNCHANGED <<nfc, probeVars>>
  /\ IF cur.fault = "user"
       THEN Caught /\ UNCHANGED <<iStage, samples>>
       ELSE /\ samples' = associate_sample_to_user(get_user_id(uid))
            /\ iStage' = StageOnTag
            /\ cur' = [cur EXCEPT !.user = get_user_id(uid), !.site = "tag"]
            /\ pcI' = "lock"
            /\ UNCHANGED last
  /\ UNCHANGED <<msgCount, faultCount, hist, stageLog, datapoints, records,
                 current_sample_id, stageVars, pollVars>>

\* a scan that never sets a deadline
end_time_Unbounded(start, timeout) == NULL
\* end_time = time.time() + timeout if timeout > 0 else None
end_time(start, timeout) == IF timeout > 0 THEN start + timeout ELSE NULL

\* The deadline passes without a tag: the scan returns None, set_stage and
\* process_sample return, self.current_sample_id = None.
IScanTimeout ==
  /\ pcI = "scan"
  /\ end_time(0, nfc_timeout) # NULL
  /\ current_sample_id' = NULL
  /\ Returned
  /\ UNCHANGED <<iStage, msgCount, faultCount, hist, stageLog, samples, datapoints,
                 records, stageVars, pollVars, running, nfc, probeVars>>

\* -------------------------------------------- presence worker: _poll_loop
\* while self.polling: (true)
WLoopEnter(w) ==
  /\ AtLoopTest(w)
  /\ polling
  /\ wpc' = [wpc EXCEPT ![w] = "read"]
  /\ UNCHANGED <<ingestVars, dbVars, stageVars, polling, thread, running, nfc,
                 probeVars>>

\* while self.polling: (false) -- the loop and the thread end
WLoopExit(w) ==
  /\ AtLoopTest(w)
  /\ ~polling
  /\ wpc' = [wpc EXCEPT ![w] = "dead"]
  /\ UNCHANGED <<ingestVars, dbVars, stageVars, polling, thread, running, nfc,
                 probeVars>>

\* One tick: get_event, then callback(event) = Controller._on_presence_event
\* up to its set_stage call.  URINAL_IN_USE returns (sleep, next tick);
\* NEARBY_DETECTED evaluates `self.presen`, an AttributeError that ends the
\* worker thread; NO_PRESENCE calls set_stage(welcome).
on_presence_event(event) ==
  CASE event = "URINAL_IN_USE"   -> "loop"
    [] event = "NEARBY_DETECTED" -> "dead"
    [] OTHER                     -> "lock"

WTick(w, rep, ok) ==
  /\ wpc[w] = "read"
  /\ wpc' = [wpc EXCEPT ![w] = on_presence_event(get_event(rep, ok))]
  /\ UNCHANGED <<ingestVars, dbVars, stageVars, polling, thread, running, nfc,
                 probeVars>>

WLock(w) ==
  /\ wpc[w] = "lock"
  /\ state_lock = Free
  /\ state_lock' = WThread(w)
  /\ state' = Mutate("welcome", NULL)
  /\ wpc' = [wpc EXCEPT ![w] = "notify"]
  /\ UNCHANGED <<ingestVars, dbVars, polling, thread, running, nfc, probeVars>>

WNotify(w) ==
  /\ wpc[w] = "notify"
  /\ state_lock' = LockAfterWith(WThread(w))
  /\ wpc' = [wpc EXCEPT ![w] = "pollers"]
  /\ UNCHANGED <<ingestVars, dbVars, state, polling, thread, running, nfc,
                 probeVars>>

\* set_stage(welcome) reaches its else branch: stop_polling on a worker
\* thread; the callback returns, the worker sleeps and loops.
WPollers(w, joined) ==
  /\ wpc[w] = "pollers"
  /\ \E after \in {[wpc EXCEPT ![w] = "stopped"]} :
       /\ polling' = FALSE
       /\ thread' = thread
       /\ IF thread # NULL /\ wpc[thread] # "dead" /\ w # thread /\ joined
            THEN /\ AtLoopTest(thread)
                 /\ wpc' = [after EXCEPT ![thread] = "dead"]
            ELSE wpc' = after
  /\ UNCHANGED <<ingestVars, dbVars, stageVars, running, nfc, probeVars>>

\* ------------------------------------------------- broker supervisor
\* conf.system, as the restart branch of start_broker tells them apart
Systems == {"LINUX", "WINDOWS"}

\* The name under which the process list shows a running broker:
\* the executable started by Popen(["mosquitto", "-v"]).
ProcessName(system) == IF system = "WINDOWS" THEN "mosquitto.exe" ELSE "mosquitto"

\* Broker.is_mosquitto_running: some process is named "mosquitto.exe"
is_mosquitto_running(alive, system) ==
  alive /\ ProcessName(system) = "mosquitto.exe"

SupOnly == UNCHANGED <<ingestVars, dbVars, stageVars, pollVars, running, nfc, cls,
                       tick>>

\* start_broker(num_retries, timeout) is called; alive says whether a
\* broker process is running at that moment.
SupStart(system, num_retries, alive) ==
  /\ sup.pc \in {"none", "done"}
  /\ sup' = [pc |-> "check", system |-> system, num_retries |-> num_retries,
             attempt |-> 0, alive |-> alive, was_alive |-> alive,
             spawned |-> 0, restarts |-> 0, started |-> FALSE]
  /\ SupOnly

\* if self.is_mosquitto_running(): return
SupCheck ==
  /\ sup.pc = "check"
  /\ sup' = [sup EXCEPT !.pc = IF is_mosquitto_running(sup.alive, sup.system)
                                 THEN "done" ELSE "loop"]
  /\ SupOnly

\* One turn of `while attempt < num_retries`: Popen raises (~spawns) or
\* starts a process, which after the sleep is up or not; the health check
\* ends the call or raises into the except branch (attempt += 1, sleep).
SupAttempt(spawns, up) ==
  /\ sup.pc = "loop"
  /\ sup.attempt < sup.num_retries
  /\ LET now_alive == sup.alive \/ (spawns /\ up)
         spawned   == IF spawns THEN sup.spawned + 1 ELSE sup.spawned
     IN IF spawns /\ is_mosquitto_running(now_alive, sup.system)
          THEN sup' = [sup EXCEPT !.pc = "done", !.alive = now_alive,
                                  !.spawned = spawned, !.started = TRUE]
          ELSE sup' = [sup EXCEPT !.alive = now_alive, !.spawned = spawned,
                                  !.attempt = sup.attempt + 1]
  /\ SupOnly

\* After the loop: the service restart command of the system, whose
\* failure is caught and logged.
SupRestart(ok) ==
  /\ sup.pc = "loop"
  /\ sup.attempt >= sup.num_retries
  /\ sup' = [sup EXCEPT !.pc = "done",
                        !.restarts = IF sup.system \in Systems
                                       THEN sup.restarts + 1 ELSE sup.restarts,
                        !.alive = sup.alive \/ ok]
  /\ SupOnly

\* ------------------------------ presence poller driven by a client
\* The poller's own operations with a callback that only takes the event.
\* A read ends with a report ("ok"), raises ("raise") or exceeds the
\* deadline of wait_for ("timeout").
Reads == {"ok", "raise", "timeout"}
PollerOnly == UNCHANGED <<ingestVars, dbVars, stageVars, running, nfc, cls, sup>>

\* start_polling(callback, interval) by the client
PStart ==
  /\ start_polling
  /\ UNCHANGED tick
  /\ PollerOnly

\* stop_polling() by the client
PStop(joined) ==
  /\ stop_polling(NULL, joined)
  /\ UNCHANGED tick
  /\ PollerOnly

\* One tick of _poll_loop: get_event, callback(event), sleep.
PTick(w, read, rep) ==
  /\ wpc[w] = "read"
  /\ tick.ticks < MaxTicks
  /\ tick' = [ticks |-> tick.ticks + 1, calls |-> tick.calls + 1,
              read |-> read, rep |-> rep,
              event |-> get_event(rep, read = "ok")]
  /\ wpc' = [wpc EXCEPT ![w] = "loop"]
  /\ UNCHANGED <<polling, thread>>
  /\ PollerOnly

\* ------------------------------------- tag reader driven by a client
\* The reader's own operations, called by a client thread with a timeout
\* and a callback of its choice.  A callback either only takes the tag
\* ("plain") or, like Controller._on_nfc_detected, first calls
\* stop_continuous ("stops").
Timeouts == 0..MaxTimeout
Callbacks == {"plain", "stops"}
WorkerAlive == nfc.tpc \in {"loop", "read"}

\* the rest of the program is not involved
TagOnly == UNCHANGED <<ingestVars, dbVars, stageVars, pollVars, probeVars>>

\* read_tag_continuous(timeout, 1.0, callback) up to its loop
ScanStart(timeout, cb) ==
  /\ nfc.pc \in {"idle", "done"}
  /\ nfc' = [nfc EXCEPT !.pc = "reading", !.timeout = timeout,
                        !.end_time = end_time(0, timeout), !.now = 0,
                        !.calls = 0, !.result = "None", !.cb = cb]
  /\ UNCHANGED running
  /\ TagOnly

\* readPassiveTargetID succeeds while a tag is in the field
read_tag_once == IF nfc.tag THEN "T1" ELSE "None"

\* A tag is brought to the reader or taken away.
TagMoves ==
  /\ nfc' = [nfc EXCEPT !.tag = ~nfc.tag]
  /\ UNCHANGED running
  /\ TagOnly

\* One turn of the loop: read_tag_once(poll_interval) returns a tag
\* or None after its one-second window; a tag goes to the callback
\* and is returned; else the clock is read when a deadline is set, and the
\* loop ends once it is reached.  The callback's stop_continuous runs on
\* the client thread, which the join (of the worker, 2 s at most) lets go.
ScanRead ==
  /\ nfc.pc = "reading"
  /\ IF read_tag_once # "None"
       THEN /\ nfc' = [nfc EXCEPT !.pc = "done", !.result = read_tag_once,
                                  !.calls = nfc.calls + 1]
            /\ running' = IF nfc.cb = "stops" THEN FALSE ELSE running
       ELSE /\ running' = running
            /\ IF nfc.end_time = NULL
                 THEN nfc' = nfc
                 ELSE IF nfc.now + 1 >= nfc.end_time
                   THEN nfc' = [nfc EXCEPT !.now = nfc.now + 1, !.pc = "done"]
                   ELSE nfc' = [nfc EXCEPT !.now = nfc.now + 1]
  /\ TagOnly

\* start_continuous_threaded(callback): ignored while running, else sets
\* the flag and starts the worker.  The client calls it between its scans
\* and when no earlier worker is left.
StartThreaded(cb) ==
  /\ ~WorkerAlive
  /\ nfc.pc # "reading"
  /\ IF running
       THEN UNCHANGED <<running, nfc>>
       ELSE /\ running' = TRUE
            /\ nfc' = [nfc EXCEPT !.thread = "worker", !.tpc = "loop",
                                  !.cb = cb]
  /\ TagOnly

\* stop_continuous called by a client thread: clears the flag and joins the
\* worker, if one is alive, for 2 s at most.
StopContinuous ==
  /\ running' = FALSE
  /\ nfc' = nfc
  /\ TagOnly

\* _poll_tags_thread: while self.running
TagLoop ==
  /\ nfc.tpc = "loop"
  /\ nfc' = [nfc EXCEPT !.tpc = IF running THEN "read" ELSE "dead"]
  /\ UNCHANGED running
  /\ TagOnly

\* _poll_tags_thread: read_tag_once, the callback for a tag, the sleep.
\* stop_continuous called by the callback runs on the worker itself:
\* self._thread is alive and is the calling thread, and Thread.join raises
\* RuntimeError for the current thread; the exception ends the worker.
TagTick ==
  /\ nfc.tpc = "read"
  /\ IF read_tag_once # "None" /\ nfc.cb = "stops"
       THEN /\ running' = FALSE
            /\ nfc' = [nfc EXCEPT !.tpc = "raised"]
       ELSE /\ running' = running
            /\ nfc' = [nfc EXCEPT !.tpc = "loop"]
  /\ TagOnly

\* -------------------------------------------------------- specifications
IStep(joins) ==
  \/ ILock
  \/ INotify
  \/ \E joined \in joins : IPollers(joined)
  \/ IScanTimeout
  \/ \E uid \in Tags : IScanFound(uid)

WStep ==
  \E w \in Workers :
    \/ WLoopEnter(w)
    \/ WLoopExit(w)
    \/ \E rep \in Reports, ok \in BOOLEAN : WTick(w, rep, ok)
    \/ WLock(w)
    \/ WNotify(w)
    \/ \E joined \in BOOLEAN : WPollers(w, joined)

\* The whole core, one device sending measurement records.
Next ==
  \/ \E m \in DeviceRecords : Receive(m, "none")
  \/ IStep(BOOLEAN)
  \/ WStep

Spec == Init /\ [][Next]_vars

\* The delivery-loop thread under every kind of message from two devices.
\* The presence workers take no tick and end within the join (no worker
\* action touches the tables, the sample handler or the ledger of the
\* delivery thread).
NextIngest ==
  \/ \E m \in Messages : Receive(m, "none")
  \/ IStep({TRUE})

SpecIngest == Init /\ [][NextIngest]_vars

\* The stage controller under every source of set_stage calls: the sample
\* lifecycle driven by the markers of one device, the tag callback and the
\* presence workers.  A join made by the delivery thread ends within its
\* 2 s; the stop a worker makes from its callback joins or times out.
NextStage ==
  \/ \E m \in MarkerRecords : Receive(m, "none")
  \/ IStep({TRUE})
  \/ WStep

SpecStage == Init /\ [][NextStage]_vars

\* The delivery-loop thread under records whose timestamps vary.
NextStamps ==
  \/ \E m \in TimedRecords : Receive(m, "none")
  \/ IStep({TRUE})

SpecStamps == Init /\ [][NextStamps]_vars

\* The delivery-loop thread with collaborator calls that raise.
NextFaults ==
  \/ \E m \in DeviceRecords \cup TelemetryRecords :
       \E f \in FaultsFor(m) : Receive(m, f)
  \/ IStep({TRUE})

SpecFaults == Init /\ [][NextFaults]_vars

\* The tag reader alone, driven by a client.
NextTag ==
  \/ \E timeout \in Timeouts, cb \in Callbacks : ScanStart(timeout, cb)
  \/ ScanRead
  \/ \E cb \in Callbacks : StartThreaded(cb)
  \/ StopContinuous
  \/ TagLoop
  \/ TagTick
  \/ TagMoves

SpecTag == Init /\ [][NextTag]_vars

\* The broker supervisor alone.
NextSupervisor ==
  \/ \E system \in Systems, n \in 0..MaxRetries, alive \in BOOLEAN :
       SupStart(system, n, alive)
  \/ SupCheck
  \/ \E spawns \in BOOLEAN, up \in BOOLEAN : SupAttempt(spawns, up)
  \/ \E ok \in BOOLEAN : SupRestart(ok)

SpecSupervisor == Init /\ [][NextSupervisor]_vars

\* The presence poller alone, driven by a client.
NextPresence ==
  \/ PStart
  \/ \E joined \in BOOLEAN : PStop(joined)
  \/ \E w \in Workers :
       \/ WLoopEnter(w)
       \/ WLoopExit(w)
       \/ \E read \in Reads, rep \in Reports : PTick(w, read, rep)

SpecPresence == Init /\ [][NextPresence]_vars

\* The presence classifier alone.
NextClassify == \E rep \in AllReports, th \in Thresholds : Classify(rep, th)

SpecClassify == Init /\ [][NextClassify]_vars

\* The thread inside read_tag_continuous keeps running its loop.
SpecTagFair == SpecTag /\ WF_vars(ScanRead)


\* ================================================================ claims
Last(q) == q[Len(q)]
OpenIdx == {i \in 1..Len(hist) : hist[i].flag = 1}
Max(S) == CHOOSE x \in S : \A y \in S : x >= y
\* The record that opened the latest cycle (0 when there is none).
CycleStart == IF OpenIdx = {} THEN 0 ELSE Max(OpenIdx)
\* Since its open marker the handler has been given records of that one
\* device only: the open marker, then mid records, then at most a close
\* marker as the latest record.
OneDeviceCycle ==
  /\ CycleStart > 0
  /\ \A i \in CycleStart..Len(hist) :
       /\ hist[i].dev = hist[CycleStart].dev
       /\ hist[i].ok
       /\ (i > CycleStart /\ i < Len(hist)) => hist[i].flag = 0
CycleClosed == OneDeviceCycle /\ Last(hist).flag = -1 /\ pcI = "idle"
\* The stage names broadcast by the delivery thread for the latest cycle.
CycleLogEntries == SelectSeq(stageLog, LAMBDA e : e.rec >= CycleStart)
CycleLog == [i \in 1..Len(CycleLogEntries) |-> CycleLogEntries[i].stage]
IsPrefix(p, q) == Len(p) <= Len(q) /\ \A i \in 1..Len(p) : p[i] = q[i]
SampleStages == <<"collecting", "processing", "results">>

\* C1: for one device's records open, mid*, close, the stage changes
\* requested for the cycle are collecting, processing, results in that
\* order, each once: while the cycle runs the broadcasts made for it are a
\* prefix of that sequence (followed at most by the history of the tag
\* callback), and when the close record has been handled they are all three.
C1_StageOrder ==
  OneDeviceCycle =>
    /\ IsPrefix(CycleLog, SampleStages \o <<"history">>)
    /\ CycleClosed => IsPrefix(SampleStages, CycleLog)

C1_Witness ==
  /\ CycleClosed
  /\ Len(hist) - CycleStart >= 2
  /\ CycleLog = SampleStages

\* The latest four records given to the handler are open, mid, mid, close
\* of one device and have been handled.
FourRecordCycle ==
  /\ pcI = "idle"
  /\ Len(hist) >= 4
  /\ LET n == Len(hist) IN
       /\ \A k \in 0..3 : hist[n - k].dev = hist[n].dev /\ hist[n - k].ok
       /\ <<hist[n - 3].flag, hist[n - 2].flag, hist[n - 1].flag, hist[n].flag>>
            = <<1, 0, 0, -1>>

\* C2: for a device's records open, mid, mid, close exactly one Sample is
\* created (the one of the open marker) and the four Datapoints persisted
\* for them all carry its id.
C2_OneSampleFourDatapoints ==
  FourRecordCycle =>
    /\ Len(samples) = Cardinality(OpenIdx)
    /\ Len(datapoints) >= 4
    /\ LET n == Len(datapoints) IN
         \A k \in 0..3 :
           /\ datapoints[n - k].sample_id = Len(samples)
           /\ datapoints[n - k].device = Last(hist).dev
           /\ datapoints[n - k].flag = hist[Len(hist) - k].flag
    /\ samples[Len(samples)].device = Last(hist).dev

C2_Witness ==
  /\ FourRecordCycle
  /\ Len(datapoints) = 4
  /\ \A i \in 1..4 : datapoints[i].sample_id = 1

\* C3: a Datapoint is stamped with the Sample open for its own device when
\* its record arrives, with null when that device has none, never with the
\* Sample of another device.
OpenSamplesOf(dev) ==
  {i \in DOMAIN samples : samples[i].device = dev /\ samples[i].status = "open"}

C3_StampedWithOwnDeviceSample ==
  [][Len(datapoints') > Len(datapoints) =>
       LET dp == Last(datapoints') IN
         IF OpenSamplesOf(dp.device) = {}
           THEN dp.sample_id = NULL
           ELSE dp.sample_id \in OpenSamplesOf(dp.device)]_vars

\* C4: at most one Sample per device has status open.
C4_OneOpenSamplePerDevice ==
  \A dev \in {1, 2} : Cardinality(OpenSamplesOf(dev)) <= 1

\* C5: the poller control a set_stage call applies (start or stop of the
\* Presence Poller) is the one that the stage current at that moment calls
\* for: no other call's mutation comes between a call's own mutation and
\* its poller control.
C5_PollerControlMatchesStage ==
  /\ pcI = "pollers" => RunsPresence(iStage) = RunsPresence(state.stage)
  /\ \A w \in Workers :
       wpc[w] = "pollers" => ~RunsPresence(state.stage)

\* No thread is inside Controller.set_stage.
NoSetStageInProgress ==
  /\ pcI \in {"idle", "dead"}
  /\ \A w \in Workers : wpc[w] \notin {"lock", "notify", "pollers"}

\* C6: while no set_stage call is in progress, the Presence Poller polls
\* only in the stages results and history.
C6_PollingOnlyInResultsOrHistory ==
  (NoSetStageInProgress /\ polling) => state.stage \in {"results", "history"}

AliveWorkers == {w \in Workers : wpc[w] \notin {"unused", "dead"}}
ScansInProgress == IF pcI = "scan" THEN 1 ELSE 0

\* C7: at most one Presence Poller worker loop is alive and at most one tag
\* scan is in progress.
C7_OneWorkerPerPoller ==
  /\ Cardinality(AliveWorkers) <= 1
  /\ ScansInProgress <= 1

\* C8: a message whose payload is no field map, or lacks a required field,
\* or whose address resolves to no device, causes no write and no stage
\* request: the step that receives it leaves the tables, the current
\* sample, the stage and the broadcasts as they were and ends the handler.
C8_RejectedMessageWritesNothing ==
  [][(pcI = "idle" /\ last'.bad) =>
       /\ UNCHANGED <<samples, datapoints, records, current_sample_id>>
       /\ UNCHANGED <<state, stageLog, hist>>
       /\ pcI' \in {"idle", "dead"}]_vars

C8_Witness ==
  /\ last.bad
  /\ last.outcome = "dropped"
  /\ Len(datapoints) > 0
  /\ Len(records) > 0

\* C9: a message on a configured topic, with all the fields the topic
\* requires (also when it requires none) and a known device, reaches the
\* one destination of its topic: the sample handler or the topic's table.
C9_AcceptableMessageDelivered ==
  (pcI = "idle" /\ last.valid) => last.dest = last.want

\* C10: no exception leaves the message handler: the delivery loop never
\* ends because of a message.
C10_NoExceptionEscapes == pcI # "dead"

NotifyFaults == {"notify_collecting", "notify_processing", "notify_results",
                 "notify_history"}

\* C11: every measurement record handed to handle_datapoint is persisted
\* as exactly one Datapoint, whatever its marker and whether or not a
\* Sample is open, also when a stage notification of its handling raises:
\* once the records are handled the Datapoints are the records, in order.
C11_EveryRecordPersisted ==
  (/\ pcI = "idle"
   /\ \A i \in 1..Len(hist) : hist[i].fault \in {"none"} \cup NotifyFaults)
  => /\ Len(datapoints) = Len(hist)
     /\ \A i \in 1..Len(hist) :
          /\ datapoints[i].device = hist[i].dev
          /\ datapoints[i].flag = hist[i].flag

\* C12: the payload of the stage_update broadcast of a set_stage call is
\* the state the controller holds after the call: the new stage name and
\* every auxiliary field stored, those kept from earlier calls included.
C12_BroadcastIsStoredState ==
  [][stageLog' # stageLog =>
       /\ Len(stageLog') = Len(stageLog) + 1
       /\ Last(stageLog').stage = state'.stage
       /\ Last(stageLog').user_id = state'.user_id]_vars

\* C13: when the observer notification raises inside set_stage, the
\* exception reaches the caller (the record is given up as an error), no
\* broadcast is made and none is retried, the stage mutex is released, no
\* poller is started or stopped, and the stored stage keeps the new name.
C13_NotifyFailurePropagates ==
  [][(pcI = "notify" /\ cur.fault = NotifyFault(iStage)) =>
       /\ pcI' = "idle"
       /\ last'.outcome = "error"
       /\ stageLog' = stageLog
       /\ state_lock' = Free
       /\ UNCHANGED <<polling, thread, wpc, running>>
       /\ state' = state
       /\ state'.stage = iStage]_vars

C13_Witness ==
  /\ pcI = "idle"
  /\ last.outcome = "error"
  /\ state.stage = "results"
  /\ \A i \in 1..Len(stageLog) : stageLog[i].stage # "results"
  /\ state_lock = Free
  /\ ~polling

\* C14: stop_polling called from the Presence Poller's own callback
\* returns without joining the calling worker (the worker goes on to its
\* sleep with the flag cleared), and that worker then delivers no further
\* callback: its next step is the end of its loop.
C14_SelfStopEndsLoop ==
  [][\A w \in Workers :
       /\ (wpc[w] = "pollers" /\ wpc'[w] # "pollers")
            => (wpc'[w] = "stopped" /\ ~polling')
       /\ wpc[w] = "stopped" => wpc'[w] \in {"stopped", "dead"}]_vars

\* The controller's policy for a presence event: IN_USE returns to the
\* poller, ABSENT and NEARBY request set_stage(welcome).
PresencePolicy(event) ==
  IF event = "URINAL_IN_USE" THEN "loop" ELSE "lock"

\* C15: the presence callback does nothing on IN_USE and requests
\* set_stage(welcome) on ABSENT and on NEARBY (after its wait), so that
\* the stage becomes welcome and the Presence Poller is stopped.
C15_PresencePolicy ==
  [][\A w \in Workers : \A rep \in Reports : \A ok \in BOOLEAN :
       WTick(w, rep, ok) => wpc'[w] = PresencePolicy(get_event(rep, ok))]_vars

\* C16: for every timeout > 0 read_tag_continuous ends, and ends in one of
\* two ways: a tag was read, the callback was invoked once and the tag is
\* returned; or the deadline was reached, no callback was invoked and None
\* is returned.
C16_BoundedScanOutcome ==
  /\ [](/\ nfc.pc = "done" /\ nfc.timeout > 0
         => \/ nfc.result # "None" /\ nfc.calls = 1
            \/ /\ nfc.result = "None" /\ nfc.calls = 0
               /\ nfc.now >= nfc.timeout)
  /\ (nfc.pc = "reading" /\ nfc.timeout > 0) ~> (nfc.pc = "done")

C16_Witness ==
  /\ nfc.pc = "done"
  /\ nfc.timeout = MaxTimeout
  /\ nfc.result = "None"
  /\ nfc.calls = 0

\* C17: read_tag_continuous with timeout 0 returns None without invoking
\* the callback, whether or not a tag is at the reader.
C17_ZeroTimeoutReturnsNotFound ==
  (nfc.pc = "done" /\ nfc.timeout = 0) =>
    (nfc.result = "None" /\ nfc.calls = 0)

\* C18: stop_continuous returns normally on every thread and in every
\* state of the reader: no call of it ends in an exception.
C18_StopContinuousReturns == nfc.tpc # "raised"

\* C19: a tag read during the scan of the results stage associates the
\* user of the tag with the Sample that the close marker in hand closed,
\* and with no other Sample; the stage is then set to history with that
\* user id.
C19_TagUserOnClosedSample ==
  /\ [][(pcI = "scan" /\ pcI' = "lock" /\ cur.closed # NULL) =>
          /\ cur'.user # NULL
          /\ cur.closed \in DOMAIN samples
          /\ samples[cur.closed].status = "closed"
          /\ samples' = [samples EXCEPT ![cur.closed].user = cur'.user]
          /\ iStage' = "history"]_vars
  /\ []((pcI = "notify" /\ cur.site = "tag") =>
          state = [stage |-> "history", user_id |-> cur.user])

C19_Witness ==
  /\ pcI = "idle"
  /\ Len(samples) = 2
  /\ samples[2].user = 1
  /\ samples[2].status = "closed"
  /\ samples[1].user = NULL
  /\ state = [stage |-> "history", user_id |-> 1]

\* C20: a tag read takes effect (callback, association, history) only
\* while the stage is still results.
C20_TagOnlyInResults ==
  [][(pcI = "scan" /\ pcI' = "lock") => state.stage = "results"]_vars

\* The readings a report carries, 0 included.
Carried(rep) == {rep[i] : i \in {j \in 1..3 : rep[j] # NoReading}}

C22_TickCallsBackOnce ==
  /\ [](tick.calls = tick.ticks)
  /\ [](tick.read = "ok" => tick.event = interpret_report(tick.rep))
  /\ [](tick.read \in {"raise", "timeout"} => tick.event = "NO_PRESENCE")
  /\ [][\A w \in Workers :
          (wpc[w] = "read" /\ wpc'[w] # "read") =>
             (wpc'[w] = "loop" /\ tick'.calls = tick.calls + 1)]_vars

C22_Witness ==
  /\ tick.ticks = MaxTicks
  /\ tick.read = "timeout"
  /\ tick.rep = <<30, NoReading, 200>>
  /\ tick.event = "NO_PRESENCE"
  /\ \E w \in Workers : wpc[w] = "loop"

\* C23: start_broker spawns no process and restarts no service when the
\* broker is alive at the call; else it makes at most num_retries attempts,
\* ends at the first whose health check succeeds, and restarts the service
\* once exactly when every attempt failed (also for num_retries = 0).
C23_StartBroker ==
  sup.pc = "done" =>
    /\ sup.was_alive => (sup.spawned = 0 /\ sup.restarts = 0)
    /\ sup.spawned <= sup.num_retries
    /\ sup.attempt <= sup.num_retries
    /\ sup.started => sup.restarts = 0
    /\ (~sup.was_alive /\ ~sup.started) => sup.restarts = 1
    /\ sup.restarts <= 1

\* C24: every Sample closed by a close marker has end_time >= start_time,
\* whatever timestamps the open and the close record carry.
C24_EndNotBeforeStart ==
  \A i \in DOMAIN samples :
    samples[i].status = "closed" => samples[i].end_time >= samples[i].start_time

\* C25 as stated: the stage is idle before the first record and its name
\* is always one of idle, welcome, collecting, processing, results, history,
\* goodbye.
C25_StageNamesWithIdle ==
  /\ hist = <<>> => state.stage = "idle"
  /\ state.stage \in {"idle", "welcome", "collecting", "processing", "results",
                       "history", "goodbye"}

\* C25 (amended): the stage is standby before the first record and, after
\* any sequence of set_stage calls of the sample lifecycle, the tag callback
\* and the presence callback, its name is always one of standby, welcome,
\* collecting, processing, results, history, goodbye.
C25_StageNames ==
  /\ hist = <<>> => state.stage = "standby"
  /\ state.stage \in {"standby", "welcome", "collecting", "processing",
                       "results", "history", "goodbye"}

\* The three sources have acted: a Sample went through its lifecycle, the
\* tag callback announced history, a presence callback set welcome.
C25_Witness ==
  /\ state.stage = "welcome"
  /\ \E i \in DOMAIN stageLog : stageLog[i].stage = "history"
  /\ \E i \in DOMAIN stageLog : stageLog[i].stage = "results"

\* C26: once handle_datapoint has been invoked with a close marker and the
\* delivery thread is back at its loop, the handler holds no current sample,
\* also when a call made on the way raised and the broker swallowed it.
C26_NoCurrentSampleAfterClose ==
  (pcI = "idle" /\ hist # <<>> /\ Last(hist).flag = -1)
    => current_sample_id = NULL

\* C27: the delivery thread closes, post-processes and announces
\* processing or results only for a Sample that an open marker created: a
\* close marker received while no Sample is open starts none of these.
C27_CloseNeedsOpenSample ==
  cur.site \in {"close", "process"} => cur.closed \in DOMAIN samples

\* C28: whenever the polling flag of the presence poller is set, its latest
\* worker thread exists and is alive.
C28_PollingHasLiveWorker ==
  polling => (thread # NULL /\ wpc[thread] \notin {"unused", "dead"})

\* C30: a step that changes the stage to welcome starts from results or
\* history, never from collecting or processing.
C30_WelcomeOnlyFromResultsOrHistory ==
  [][(state'.stage = "welcome" /\ state.stage # "welcome")
       => state.stage \in {"results", "history"}]_vars

\* C29: the stage mutex is held only between the entry of a with block and
\* its exit after the observer notification; no thread holds it while it
\* controls the pollers, runs a tag scan or a poller callback, or waits to
\* enter set_stage, so a set_stage call made from a callback finds a mutex
\* whose holder is about to release it.
C29_LockOnlyAroundNotify ==
  /\ state_lock = IThread => pcI = "notify"
  /\ \A w \in Workers : state_lock = WThread(w) => wpc[w] = "notify"

\* set_stage(history), called by the tag callback inside set_stage(results),
\* and set_stage(welcome), called by the presence callback on a worker, have
\* both left their with block.
C29_Witness ==
  /\ pcI = "pollers"
  /\ cur.site = "tag"
  /\ \E w \in Workers : wpc[w] = "pollers"

====
